---- MODULE Spec2Model ----
(***************************************************************************)
(* Model of model/deployment.go: the DeploymentConstructor validator, the  *)
(* Deployment entity with its per-status device counters, the status       *)
(* derivation (IsNotPending, IsFinished, GetStatus) and the external JSON  *)
(* representation (MarshalJSON).                                           *)
(*                                                                         *)
(* Strings whose only observed property is their length (Name,             *)
(* ArtifactName) are represented by that length.  A JSON object is         *)
(* represented by the function from the keys it contains to their values.  *)
(***************************************************************************)
EXTENDS Integers, Sequences, FiniteSets, TLC

VARIABLES pc, c, err, d

vars == <<pc, c, err, d>>

\* ------------------------------------------------------------------ bounds
\* longest device list offered to the validator
MaxDeviceIds == 2
\* largest target device count resolved for a deployment
MaxTargets == 2
\* cap on the sum of all counters (bounds the number of counted reports)
MaxTotal == 3

\* ------------------------------------------------------- program constants
\* upper limit of lengthIn1To4096
MaxNameLen == 4096

NULL == "nil"

ErrValidation == "validation.Errors"
ErrInvalidDeploymentDefinitionNoDevices == "ErrInvalidDeploymentDefinitionNoDevices"
ErrInvalidDeploymentDefinitionConflict == "ErrInvalidDeploymentDefinitionConflict"
ErrInvalidDeploymentToGroupDefinitionConflict == "ErrInvalidDeploymentToGroupDefinitionConflict"

DeploymentStatusFinished == "finished"
DeploymentStatusInProgress == "inprogress"
DeploymentStatusPending == "pending"

DeploymentTypeSoftware == "software"
DeploymentTypeConfiguration == "configuration"

DeviceDeploymentStatusDownloading == "downloading"
DeviceDeploymentStatusInstalling == "installing"
DeviceDeploymentStatusRebooting == "rebooting"
DeviceDeploymentStatusSuccess == "success"
DeviceDeploymentStatusAlreadyInst == "already-installed"
DeviceDeploymentStatusFailure == "failure"
DeviceDeploymentStatusAborted == "aborted"
DeviceDeploymentStatusNoArtifact == "no-artifact"
DeviceDeploymentStatusDecommissioned == "decommissioned"
DeviceDeploymentStatusPauseBeforeInstall == "pause-before-install"
DeviceDeploymentStatusPauseBeforeCommit == "pause-before-commit"
DeviceDeploymentStatusPauseBeforeReboot == "pause-before-reboot"
DeviceDeploymentStatusPending == "pending"

\* the closed set of device-level statuses
DeviceDeploymentStatuses ==
    { DeviceDeploymentStatusDownloading, DeviceDeploymentStatusInstalling,
      DeviceDeploymentStatusRebooting, DeviceDeploymentStatusSuccess,
      DeviceDeploymentStatusAlreadyInst, DeviceDeploymentStatusFailure,
      DeviceDeploymentStatusAborted, DeviceDeploymentStatusNoArtifact,
      DeviceDeploymentStatusDecommissioned,
      DeviceDeploymentStatusPauseBeforeInstall,
      DeviceDeploymentStatusPauseBeforeCommit,
      DeviceDeploymentStatusPauseBeforeReboot,
      DeviceDeploymentStatusPending }

\* ------------------------------------------------------------------ inputs
NameLens == {0, 1, MaxNameLen, MaxNameLen + 1}
DeviceIds == {"", "d1", "d2"}
Groups == {"", "g1"}
Times == {"t1", "t2"}
Types == {"", DeploymentTypeSoftware, DeploymentTypeConfiguration}

SeqsUpTo(S, n) == UNION { [1..k -> S] : k \in 0..n }

Constructors ==
    [ Name : NameLens, ArtifactName : NameLens,
      Devices : SeqsUpTo(DeviceIds, MaxDeviceIds),
      AllDevices : BOOLEAN, Group : Groups ]

\* --------------------------------------------------------------- validator
\* validation.Required followed by lengthIn1To4096, on a string of length n
lengthIn1To4096(n) == n >= 1 /\ n <= MaxNameLen

\* DeploymentConstructor.Validate: TRUE iff the structure is valid
Validate(k) ==
    /\ lengthIn1To4096(k.Name)
    /\ lengthIn1To4096(k.ArtifactName)
    /\ \A i \in 1..Len(k.Devices) : k.Devices[i] # ""

ValidateNewTargetingFirst(k) ==
    IF k.Group = "" /\ Len(k.Devices) = 0 /\ ~k.AllDevices
        THEN ErrInvalidDeploymentDefinitionNoDevices
    ELSE IF k.Group = "" /\ Len(k.Devices) > 0 /\ k.AllDevices
        THEN ErrInvalidDeploymentDefinitionConflict
    ELSE IF k.Group # "" /\ (Len(k.Devices) > 0 \/ k.AllDevices)
        THEN ErrInvalidDeploymentToGroupDefinitionConflict
    ELSE IF ~Validate(k) THEN ErrValidation
    ELSE NULL

ValidateNewNoConflictCheck(k) ==
    IF ~Validate(k) THEN ErrValidation
    ELSE IF k.Group = ""
        THEN IF Len(k.Devices) = 0 /\ ~k.AllDevices
                 THEN ErrInvalidDeploymentDefinitionNoDevices
                 ELSE NULL
        ELSE IF Len(k.Devices) > 0 \/ k.AllDevices
                 THEN ErrInvalidDeploymentToGroupDefinitionConflict
                 ELSE NULL

\* DeploymentConstructor.ValidateNew: the error returned (NULL for success)
ValidateNew(k) ==
    IF ~Validate(k) THEN ErrValidation
    ELSE IF k.Group = ""
        THEN IF Len(k.Devices) = 0 /\ ~k.AllDevices
                 THEN ErrInvalidDeploymentDefinitionNoDevices
             ELSE IF Len(k.Devices) > 0 /\ k.AllDevices
                 THEN ErrInvalidDeploymentDefinitionConflict
             ELSE NULL
        ELSE IF Len(k.Devices) > 0 \/ k.AllDevices
                 THEN ErrInvalidDeploymentToGroupDefinitionConflict
                 ELSE NULL

\* ------------------------------------------------------------------ entity
\* the zero value of DeploymentConstructor
ZeroConstructor ==
    [ Name |-> 0, ArtifactName |-> 0, Devices |-> <<>>,
      AllDevices |-> FALSE, Group |-> "" ]

\* NewDeviceDeploymentStats: every counter zero
NewDeviceDeploymentStats == [ s \in DeviceDeploymentStatuses |-> 0 ]

\* the zero value of Deployment
ZeroDeployment ==
    [ DeploymentConstructor |-> ZeroConstructor,
      Created |-> NULL, Finished |-> NULL, Id |-> "",
      Artifacts |-> <<>>, Stats |-> NewDeviceDeploymentStats,
      Status |-> "", DeviceCount |-> NULL, MaxDevices |-> 0,
      DeviceList |-> <<>>, Type |-> "", Configuration |-> <<>> ]

\* NewDeployment: Created, Id, an empty constructor and fresh counters
NewDeployment(now, id) ==
    [ ZeroDeployment EXCEPT
        !.Created = now, !.Id = id,
        !.DeploymentConstructor = ZeroConstructor,
        !.Stats = NewDeviceDeploymentStats ]

\* NewDeploymentFromConstructor: NewDeployment, then the constructor, the
\* pending status and a device count of zero
NewDeploymentFromConstructor(constructor, now, id) ==
    [ NewDeployment(now, id) EXCEPT
        !.DeploymentConstructor = constructor,
        !.Status = DeploymentStatusPending,
        !.DeviceCount = 0 ]

\* ----------------------------------------------------------------- counters
Sum6(st) ==
    st[DeviceDeploymentStatusAlreadyInst] + st[DeviceDeploymentStatusSuccess]
    + st[DeviceDeploymentStatusFailure] + st[DeviceDeploymentStatusNoArtifact]
    + st[DeviceDeploymentStatusDecommissioned] + st[DeviceDeploymentStatusAborted]

\* sum of all counters of a Stats map
SumStats(st) ==
    st[DeviceDeploymentStatusDownloading] + st[DeviceDeploymentStatusInstalling]
    + st[DeviceDeploymentStatusRebooting] + st[DeviceDeploymentStatusSuccess]
    + st[DeviceDeploymentStatusAlreadyInst] + st[DeviceDeploymentStatusFailure]
    + st[DeviceDeploymentStatusAborted] + st[DeviceDeploymentStatusNoArtifact]
    + st[DeviceDeploymentStatusDecommissioned]
    + st[DeviceDeploymentStatusPauseBeforeInstall]
    + st[DeviceDeploymentStatusPauseBeforeCommit]
    + st[DeviceDeploymentStatusPauseBeforeReboot]
    + st[DeviceDeploymentStatusPending]

applyStatusTransitionNoFloor(st, oldStatus, newStatus) ==
    LET dec == [st EXCEPT ![oldStatus] = @ - 1]
    IN  [dec EXCEPT ![newStatus] = @ + 1]

\* applyStatusTransition: decrement the old status' counter with a floor at
\* zero, then increment the new status' counter
applyStatusTransition(st, oldStatus, newStatus) ==
    LET dec == [st EXCEPT ![oldStatus] = IF @ > 0 THEN @ - 1 ELSE 0]
    IN  [dec EXCEPT ![newStatus] = @ + 1]

\* -------------------------------------------------------- status derivation
IsNotPendingWithDecommissioned(dep) ==
    \E s \in DeviceDeploymentStatuses \ {DeviceDeploymentStatusPending} :
        dep.Stats[s] > 0

\* Deployment.IsNotPending
IsNotPending(dep) ==
    \/ dep.Stats[DeviceDeploymentStatusDownloading] > 0
    \/ dep.Stats[DeviceDeploymentStatusInstalling] > 0
    \/ dep.Stats[DeviceDeploymentStatusRebooting] > 0
    \/ dep.Stats[DeviceDeploymentStatusSuccess] > 0
    \/ dep.Stats[DeviceDeploymentStatusAlreadyInst] > 0
    \/ dep.Stats[DeviceDeploymentStatusFailure] > 0
    \/ dep.Stats[DeviceDeploymentStatusAborted] > 0
    \/ dep.Stats[DeviceDeploymentStatusNoArtifact] > 0
    \/ dep.Stats[DeviceDeploymentStatusPauseBeforeInstall] > 0
    \/ dep.Stats[DeviceDeploymentStatusPauseBeforeCommit] > 0
    \/ dep.Stats[DeviceDeploymentStatusPauseBeforeReboot] > 0

IsFinishedCountersOnly(dep) ==
    dep.MaxDevices > 0 /\ Sum6(dep.Stats) >= dep.MaxDevices

IsFinishedNoMaxDevicesGuard(dep) ==
    \/ dep.Finished # NULL
    \/ Sum6(dep.Stats) >= dep.MaxDevices

IsFinishedStrictlyMore(dep) ==
    \/ dep.Finished # NULL
    \/ dep.MaxDevices > 0 /\ Sum6(dep.Stats) > dep.MaxDevices

\* Deployment.IsFinished
IsFinished(dep) ==
    \/ dep.Finished # NULL
    \/ dep.MaxDevices > 0 /\
         ( dep.Stats[DeviceDeploymentStatusAlreadyInst]
         + dep.Stats[DeviceDeploymentStatusSuccess]
         + dep.Stats[DeviceDeploymentStatusFailure]
         + dep.Stats[DeviceDeploymentStatusNoArtifact]
         + dep.Stats[DeviceDeploymentStatusDecommissioned]
         + dep.Stats[DeviceDeploymentStatusAborted] ) >= dep.MaxDevices

GetStatusInProgressFirst(dep) ==
    IF IsNotPending(dep) THEN DeploymentStatusInProgress
    ELSE IF IsFinished(dep) THEN DeploymentStatusFinished
    ELSE DeploymentStatusPending

\* Deployment.GetStatus
GetStatus(dep) ==
    IF IsFinished(dep) THEN DeploymentStatusFinished
    ELSE IF IsNotPending(dep) THEN DeploymentStatusInProgress
    ELSE DeploymentStatusPending

\* ----------------------------------------------------------- serialization
\* The fields encoding/json emits for the struct MarshalJSON builds: the
\* promoted fields of Alias and of its embedded constructor, with devices and
\* type taken from the outer struct, which shadows the embedded ones.
\* Fields tagged "-" (Group, Stats, DeviceList) are never emitted.
slim(dep) ==
    [ name |-> dep.DeploymentConstructor.Name,
      artifact_name |-> dep.DeploymentConstructor.ArtifactName,
      all_devices |-> dep.DeploymentConstructor.AllDevices,
      created |-> dep.Created,
      finished |-> dep.Finished,
      id |-> dep.Id,
      artifacts |-> dep.Artifacts,
      status |-> dep.Status,
      device_count |-> dep.DeviceCount,
      max_devices |-> dep.MaxDevices,
      configuration |-> dep.Configuration,
      devices |-> <<>>,
      type |-> IF dep.Type = "" THEN DeploymentTypeSoftware ELSE dep.Type ]

\* the keys of slim tagged omitempty whose value is empty
OmittedKeys(v) ==
      (IF v.name = 0 THEN {"name"} ELSE {})
    \cup (IF v.artifact_name = 0 THEN {"artifact_name"} ELSE {})
    \cup (IF ~v.all_devices THEN {"all_devices"} ELSE {})
    \cup (IF v.finished = NULL THEN {"finished"} ELSE {})
    \cup (IF Len(v.artifacts) = 0 THEN {"artifacts"} ELSE {})
    \cup (IF v.max_devices = 0 THEN {"max_devices"} ELSE {})
    \cup (IF Len(v.configuration) = 0 THEN {"configuration"} ELSE {})
    \cup (IF Len(v.devices) = 0 THEN {"devices"} ELSE {})
    \cup (IF v.type = "" THEN {"type"} ELSE {})

\* Deployment.MarshalJSON: the JSON object, as the function from its keys
MarshalJSON(dep) ==
    LET v == slim(dep)
    IN  [ k \in (DOMAIN v) \ OmittedKeys(v) |-> v[k] ]

\* ----------------------------------------------------------------- actions
\* Creation of a deployment: validation of the request, construction of the
\* entity, target resolution.
Init ==
    /\ pc = "start"
    /\ c = ZeroConstructor
    /\ err = NULL
    /\ d = ZeroDeployment

\* a creation request is validated
DoValidateNew ==
    /\ pc = "start"
    /\ \E k \in Constructors :
         /\ c' = k
         /\ err' = ValidateNew(k)
    /\ pc' = "validated"
    /\ UNCHANGED d

\* the deployment is built from the validated constructor
DoNewDeploymentFromConstructor ==
    /\ pc = "validated"
    /\ err = NULL
    /\ \E now \in Times :
         d' = NewDeploymentFromConstructor(c, now, "id1")
    /\ pc' = "created"
    /\ UNCHANGED <<c, err>>

\* target resolution fixes the target count and the deployment type
ResolveTargets ==
    /\ pc = "created"
    /\ \E n \in 0..MaxTargets, t \in Types :
         d' = [d EXCEPT !.MaxDevices = n, !.Type = t]
    /\ pc' = "active"
    /\ UNCHANGED <<c, err>>

Next ==
    \/ DoValidateNew
    \/ DoNewDeploymentFromConstructor
    \/ ResolveTargets

Spec == Init /\ [][Next]_vars

\* Life of a created deployment: device status reports and explicit
\* termination, starting from a freshly created deployment whose target
\* count has been resolved.
ScenarioConstructor ==
    [ Name |-> 2, ArtifactName |-> 6, Devices |-> <<"d1", "d2">>,
      AllDevices |-> FALSE, Group |-> "" ]

InitLifecycle ==
    /\ pc = "active"
    /\ c = ScenarioConstructor
    /\ err = ValidateNew(ScenarioConstructor)
    /\ \E n \in 0..MaxTargets :
         d = [ NewDeploymentFromConstructor(ScenarioConstructor, "t1", "id1")
                 EXCEPT !.MaxDevices = n ]

\* a device reports a status transition
DoApplyStatusTransition ==
    /\ pc = "active"
    /\ \E o \in DeviceDeploymentStatuses, n \in DeviceDeploymentStatuses :
         LET st == applyStatusTransition(d.Stats, o, n)
         IN  /\ SumStats(st) <= MaxTotal
             /\ d' = [d EXCEPT !.Stats = st]
    /\ UNCHANGED <<pc, c, err>>

\* the deployment is explicitly terminated: Finished is set, once
SetFinished ==
    /\ pc = "active"
    /\ d.Finished = NULL
    /\ \E now \in Times : d' = [d EXCEPT !.Finished = now]
    /\ UNCHANGED <<pc, c, err>>

NextLifecycle ==
    \/ DoApplyStatusTransition
    \/ SetFinished

SpecLifecycle == InitLifecycle /\ [][NextLifecycle]_vars

\* ------------------------------------------------------------------ claims
RECURSIVE SumOver(_, _)
SumOver(st, S) ==
    IF S = {} THEN 0
    ELSE LET s == CHOOSE x \in S : TRUE IN st[s] + SumOver(st, S \ {s})

StructurallyValid(k) ==
    /\ k.Name \in 1..4096
    /\ k.ArtifactName \in 1..4096
    /\ "" \notin { k.Devices[i] : i \in 1..Len(k.Devices) }

ExactlyOneMode(k) ==
    IF k.Group = ""
        THEN (Len(k.Devices) > 0) # k.AllDevices
        ELSE Len(k.Devices) = 0 /\ ~k.AllDevices

\* C1: for every structurally valid constructor, ValidateNew succeeds iff
\* exactly one targeting mode is selected: with an empty group, iff exactly
\* one of (devices non-empty, allDevices) holds; with a group, iff devices
\* is empty and allDevices is false.
C1_ValidateNewIffExactlyOneMode ==
    (pc = "validated" /\ StructurallyValid(c)) =>
        ((err = NULL) <=> ExactlyOneMode(c))

C1_Witness ==
    /\ pc = "validated"
    /\ StructurallyValid(c)
    /\ c.Group = "" /\ Len(c.Devices) = 2 /\ ~c.AllDevices
    /\ err = NULL

\* C2: the sum of all counters in stats never exceeds maxDevices, whatever
\* sequence of status transitions has been applied to the fresh deployment.
C2_SumNeverExceedsMaxDevices ==
    pc = "active" => SumStats(d.Stats) <= d.MaxDevices

\* C3: GetStatus returns finished when IsFinished is true, otherwise
\* inprogress when IsNotPending is true, otherwise pending; when both
\* IsFinished and IsNotPending hold, finished wins.
C3_GetStatusPrecedence ==
    /\ IsFinished(d) => GetStatus(d) = "finished"
    /\ (~IsFinished(d) /\ IsNotPending(d)) => GetStatus(d) = "inprogress"
    /\ (~IsFinished(d) /\ ~IsNotPending(d)) => GetStatus(d) = "pending"

C3_Witness ==
    /\ d.Finished = NULL
    /\ d.MaxDevices = 2
    /\ d.Stats["success"] = 2
    /\ IsFinished(d) /\ IsNotPending(d)
    /\ GetStatus(d) = "finished"

\* C4: once the finished timestamp is set, it stays set and GetStatus
\* returns finished in that state and after every later step, whatever the
\* counters and maxDevices are.
C4_FinishedTimestampWins ==
    [][ /\ d.Finished # NULL => GetStatus(d) = "finished"
        /\ d.Finished # NULL =>
             (d'.Finished = d.Finished /\ GetStatus(d') = "finished")
        /\ d'.Finished # NULL => GetStatus(d') = "finished" ]_vars

C4_Witness ==
    /\ d.Finished # NULL
    /\ d.MaxDevices = 0
    /\ \A s \in DOMAIN d.Stats : d.Stats[s] = 0
    /\ GetStatus(d) = "finished"

\* C5: a deployment with maxDevices = 0 and no finished timestamp never has
\* IsFinished true and never has GetStatus = finished, whatever the
\* terminal-outcome counters are.
C5_ZeroTargetsNeverFinishByCounters ==
    (d.MaxDevices = 0 /\ d.Finished = NULL) =>
        (~IsFinished(d) /\ GetStatus(d) # "finished")

C5_Witness ==
    /\ d.MaxDevices = 0
    /\ d.Finished = NULL
    /\ d.Stats["success"] >= 1 /\ d.Stats["decommissioned"] >= 1
    /\ ~IsFinished(d)

TerminalOutcomes ==
    { "already-installed", "success", "failure", "no-artifact",
      "decommissioned", "aborted" }

\* C6: with maxDevices = N > 0 and no finished timestamp, IsFinished is true
\* exactly when the six terminal-outcome counters sum to at least N, and then
\* GetStatus returns finished; with fewer it does not.
C6_FinishedIffTerminalCountReachesTarget ==
    (d.MaxDevices > 0 /\ d.Finished = NULL) =>
        LET n == SumOver(d.Stats, TerminalOutcomes)
        IN  /\ IsFinished(d) <=> (n >= d.MaxDevices)
            /\ (GetStatus(d) = "finished") <=> (n >= d.MaxDevices)

C6_Witness ==
    /\ d.MaxDevices = 2
    /\ d.Finished = NULL
    /\ d.Stats["success"] = 1 /\ d.Stats["failure"] = 1
    /\ SumStats(d.Stats) = 2
    /\ IsFinished(d)
    /\ GetStatus(d) = "finished"

ActiveOrOutcome ==
    { "downloading", "installing", "rebooting", "success",
      "already-installed", "failure", "aborted", "no-artifact",
      "pause-before-install", "pause-before-commit", "pause-before-reboot" }

\* C7: IsNotPending is true iff one of the eleven counters other than
\* pending and decommissioned is positive; one device moved from pending to
\* installing with maxDevices = 2 gives inprogress, and a deployment whose
\* only non-zero counter is decommissioned, below maxDevices, is pending.
C7_IsNotPendingIffElevenCounters ==
    /\ IsNotPending(d) <=> (\E s \in ActiveOrOutcome : d.Stats[s] > 0)
    /\ ( /\ d.Finished = NULL
         /\ d.MaxDevices = 2
         /\ d.Stats = [NewDeviceDeploymentStats EXCEPT !["installing"] = 1] )
       => (IsNotPending(d) /\ ~IsFinished(d) /\ GetStatus(d) = "inprogress")
    /\ ( /\ d.Finished = NULL
         /\ d.Stats["decommissioned"] > 0
         /\ d.Stats["decommissioned"] < d.MaxDevices
         /\ \A s \in DOMAIN d.Stats \ {"decommissioned"} : d.Stats[s] = 0 )
       => GetStatus(d) = "pending"

C7_Witness ==
    /\ d.Finished = NULL
    /\ d.MaxDevices = 2
    /\ d.Stats = [NewDeviceDeploymentStats EXCEPT !["installing"] = 1]
    /\ GetStatus(d) = "inprogress"

\* C8: ValidateNew reports one of four distinct errors, the structural one
\* first: a structurally invalid constructor fails with the structural error
\* whatever its targeting fields; otherwise no group, no devices and no
\* allDevices gives the no-devices error, no group with devices and
\* allDevices the devices/allDevices conflict, and a group with devices or
\* allDevices the group conflict.
C8_FourErrorsStructuralFirst ==
    /\ Cardinality({ ErrValidation,
                     ErrInvalidDeploymentDefinitionNoDevices,
                     ErrInvalidDeploymentDefinitionConflict,
                     ErrInvalidDeploymentToGroupDefinitionConflict,
                     NULL }) = 5
    /\ pc = "validated" =>
         /\ ~StructurallyValid(c) => err = ErrValidation
         /\ ( /\ StructurallyValid(c)
              /\ c.Group = "" /\ Len(c.Devices) = 0 /\ ~c.AllDevices )
            => err = ErrInvalidDeploymentDefinitionNoDevices
         /\ ( /\ StructurallyValid(c)
              /\ c.Group = "" /\ Len(c.Devices) > 0 /\ c.AllDevices )
            => err = ErrInvalidDeploymentDefinitionConflict
         /\ ( /\ StructurallyValid(c)
              /\ c.Group # "" /\ (Len(c.Devices) > 0 \/ c.AllDevices) )
            => err = ErrInvalidDeploymentToGroupDefinitionConflict

C8_Witness ==
    /\ pc = "validated"
    /\ c.Name = 4097
    /\ c.Group = "" /\ Len(c.Devices) > 0 /\ c.AllDevices
    /\ err = ErrValidation

\* C9: the external representation never contains the device list nor the
\* allDevices flag: deployments that differ only in Devices and AllDevices
\* serialize to the same output, and the serialized type is software
\* whenever the stored type is empty.
C9_MarshalJSONHidesTargeting ==
    pc \in {"created", "active"} =>
        /\ "devices" \notin DOMAIN MarshalJSON(d)
        /\ "all_devices" \notin DOMAIN MarshalJSON(d)
        /\ \A dv \in SeqsUpTo(DeviceIds, MaxDeviceIds), a \in BOOLEAN :
             MarshalJSON([d EXCEPT !.DeploymentConstructor.Devices = dv,
                                   !.DeploymentConstructor.AllDevices = a])
               = MarshalJSON(d)
        /\ d.Type = "" => MarshalJSON(d)["type"] = "software"

\* C10: a status transition floors the decrement at zero and increments by
\* one: every counter is a non-negative integer before and after every step,
\* and a step leaves the sum of the counters unchanged or raises it by one.
C10_CountersNeverNegative ==
    [][ /\ \A s \in DOMAIN d.Stats : d.Stats[s] \in Nat
        /\ \A s \in DOMAIN d'.Stats : d'.Stats[s] \in Nat
        /\ SumStats(d'.Stats) - SumStats(d.Stats) \in {0, 1} ]_vars

C10_Witness ==
    /\ d.Stats["pending"] = 0
    /\ d.Stats["success"] = 2
    /\ SumStats(d.Stats) = 2

====
